---- MODULE Spec2Model ----
(***************************************************************************)
(* The binary decision tree of eduml (src/eduml/tree/_decision_tree.py):   *)
(* one DecisionTree instance, its fit (the recursion of _split unfolded    *)
(* over an explicit call stack) and its predict.                           *)
(*                                                                         *)
(* Python's 0-based indices are kept for sample indices (np.arange(n));    *)
(* TLA+ sequences are 1-based, so sample i is row X[i + 1].                *)
(***************************************************************************)
EXTENDS Integers, Sequences, FiniteSets, TLC

\* ------------------------------------------------------------- bounds
MaxN == 3
MaxFits == 2
\* Activations of _split the interpreter allows before it raises RecursionError.
MaxStack == 4

\* Feature values and class labels the inputs are drawn from; the limits a
\* tree is constructed with (Inf is math.inf, the value of an omitted limit).
FeatureValues == {0, 1, 2}
Labels == {0, 1}
Inf == 1000000
Limits == {1, 2, Inf}

\* Python's None, for the integer-valued fields; node references use 0.
None == -1
NoNode == 0
\* self.X / self.y before any fit (None): no data.
NoData == <<>>

\* --------------------------------------------------------- input sets
Rows == {<<v>> : v \in FeatureValues}
\* The well-formed training sets: n rows and n labels, 1 <= n <= MaxN.
Datasets == UNION {[1..n -> Rows] \X [1..n -> Labels] : n \in 1..MaxN}
\* What the caller, holding training set d, may pass to fit: d itself, or d
\* malformed in one of the ways validation rejects (no rows, no labels, one
\* label too many).
Inputs(d) == {d, <<<<>>, d[2]>>, <<d[1], <<>>>>, <<d[1], Append(d[2], d[2][1])>>}

VARIABLES
    data,                                  \* the caller's training set <<X, y>>
    max_depth, max_nodes, max_leaf_nodes,  \* configuration (__init__)
    X, y,                                  \* self.X, self.y
    root,                                  \* self.root: a node id, or NoNode
    num_nodes, num_leaf_nodes,             \* the tree's counters
    heap,                                  \* the Node objects reachable from root
    stack,                                 \* the activations of _split, innermost first
    pc,                                    \* "idle" | "fitting"
    calls,                                 \* fit calls made so far
    outcome,                               \* how the last fit call ended
    refit,                                 \* the tree replaced by a fit on the same input
    query, preds, paths                    \* predict: its argument, its result, the walk

vars == <<data, max_depth, max_nodes, max_leaf_nodes, X, y, root, num_nodes,
          num_leaf_nodes, heap, stack, pc, calls, outcome, refit,
          query, preds, paths>>

config == <<data, max_depth, max_nodes, max_leaf_nodes>>
predictVars == <<query, preds, paths>>

\* ------------------------------------------------------- sequences
Range(s) == {s[i] : i \in DOMAIN s}
Count(s, v) == Cardinality({i \in DOMAIN s : s[i] = v})

\* self.X[values], self.y[values]: the rows and labels of the samples named.
RowsOf(values) == [k \in DOMAIN values |-> X[values[k] + 1]]
LabelsOf(values) == [k \in DOMAIN values |-> y[values[k] + 1]]

\* ------------------------------------------------------------- Node
\* Node(size, values, depth, _type): a vertex with no rule, no children and
\* no prediction yet.
Node(size, values, depth, type) ==
    [size |-> size, values |-> values, depth |-> depth, type |-> type,
     loss |-> <<>>, p |-> None, val |-> None, split |-> <<>>,
     left |-> NoNode, right |-> NoNode, prediction |-> None]

\* Node.is_leaf()
is_leaf(node) == node.type = "leaf"

\* Node.decision(x): the node's rule on feature row x; TRUE routes right.
\* p is the 0-based feature index.
decision(node, x) == x[node.p + 1] >= node.val

\* ------------------------------------------- criterion and selector
\* The impurity criterion (Gini) of a label sequence, as a fraction num/den:
\* 1 - sum of the squared class shares, which is the share of the ordered
\* pairs of positions that differ in label.
Gini(ys) ==
    IF ys = <<>> THEN [num |-> 0, den |-> 1]
    ELSE [num |-> Cardinality({pr \in (DOMAIN ys) \X (DOMAIN ys) :
                                  ys[pr[1]] # ys[pr[2]]}),
          den |-> Len(ys) * Len(ys)]

FracLess(a, b) == a.num * b.den < b.num * a.den

\* The (feature, threshold) pairs that send at least one row each way, the
\* threshold a value of the feature that occurs in Xs.
Candidates(Xs) ==
    IF Xs = <<>> THEN {}
    ELSE {c \in (0..(Len(Xs[1]) - 1)) \X FeatureValues :
            /\ \E k \in DOMAIN Xs : Xs[k][c[1] + 1] = c[2]
            /\ \E k \in DOMAIN Xs : Xs[k][c[1] + 1] < c[2]}

\* The size-weighted Gini impurity of the two sides of candidate c:
\* (sL/s) Gini(left) + (sR/s) Gini(right), as a fraction.
SplitLoss(Xs, ys, c) ==
    LET D == DOMAIN Xs
        Right(k) == Xs[k][c[1] + 1] >= c[2]
        sR == Cardinality({k \in D : Right(k)})
        sL == Cardinality({k \in D : ~Right(k)})
        nR == Cardinality({pr \in D \X D : /\ Right(pr[1]) /\ Right(pr[2])
                                           /\ ys[pr[1]] # ys[pr[2]]})
        nL == Cardinality({pr \in D \X D : /\ ~Right(pr[1]) /\ ~Right(pr[2])
                                           /\ ys[pr[1]] # ys[pr[2]]})
    IN [num |-> nL * sR + nR * sL, den |-> Len(ys) * sL * sR]

\* A selector that always returns a pair: the first feature with the first
\* row's value as threshold where the selector proper reports none.
BestSplitAlways(Xs, ys) ==
    LET Scored == {[loss |-> SplitLoss(Xs, ys, c), pair |-> c] :
                     c \in Candidates(Xs)}
        Improving == {sc \in Scored : FracLess(sc.loss, Gini(ys))}
    IN IF Improving = {} THEN [loss |-> Gini(ys), pair |-> <<0, Xs[1][1]>>]
       ELSE CHOOSE c \in Improving : TRUE

\* _best_split(X, y): <<loss, best_pair>>, the pair of least loss (the first
\* in feature, then threshold order among equals); best_pair is <<>> (None)
\* when no pair improves on the impurity of y.
BestSplit(Xs, ys) ==
    LET Scored == {[loss |-> SplitLoss(Xs, ys, c), pair |-> c] :
                     c \in Candidates(Xs)}
        Improving == {sc \in Scored : FracLess(sc.loss, Gini(ys))}
        Before(c, d) ==
            \/ FracLess(c.loss, d.loss)
            \/ /\ ~FracLess(d.loss, c.loss)
               /\ \/ c.pair[1] < d.pair[1]
                  \/ c.pair[1] = d.pair[1] /\ c.pair[2] < d.pair[2]
    IN IF Improving = {} THEN [loss |-> <<>>, pair |-> <<>>]
       ELSE CHOOSE c \in Improving : \A d \in Improving \ {c} : Before(c, d)

\* _evaluate_leaf(node): the majority label of the node's samples (the
\* smallest among equals).
EvaluateLeaf(node) ==
    LET ys == LabelsOf(node.values)
        Top == {k \in Labels : \A j \in Labels : Count(ys, k) >= Count(ys, j)}
    IN IF ys = <<>> THEN None
       ELSE CHOOSE k \in Top : \A j \in Top : k <= j

\* validate_feature_matrix / validate_target_vector / check_consistent_length:
\* what each lets through.
ValidMatrix(Xin) == Xin # <<>>
ValidVector(yin) == yin # <<>>
ConsistentLength(Xin, yin) == Len(Xin) = Len(yin)

\* ------------------------------------------------------ DecisionTree
\* _is_pure(node)
IsPure(node) == Gini(LabelsOf(node.values)).num = 0

\* _check_criterion with the depth compared by <= instead of <.
CheckCriterionDepthLate(node, nodes, leaves) ==
    /\ node.depth <= max_depth
    /\ nodes < max_nodes
    /\ leaves < max_leaf_nodes
    /\ node.size > 1

\* _check_criterion(node), with the counters as they stand at the call.
CheckCriterion(node, nodes, leaves) ==
    LET depth_not_reached == node.depth < max_depth
        max_nodes_not_reached == nodes < max_nodes
        max_leaf_nodes_not_reached == leaves < max_leaf_nodes
        can_split == node.size > 1
    IN /\ depth_not_reached
       /\ max_nodes_not_reached
       /\ max_leaf_nodes_not_reached
       /\ can_split

\* train_decisions of _split: the rule of curr on each of its rows.
TrainDecisions(curr) ==
    LET Xs == RowsOf(curr.values)
    IN [k \in DOMAIN Xs |-> decision(curr, Xs[k])]

\* curr.split: [curr.size - sum(train_decisions), sum(train_decisions)]
SplitSizes(curr) ==
    LET sum == Cardinality({k \in DOMAIN curr.values : TrainDecisions(curr)[k]})
    IN <<curr.size - sum, sum>>

\* next_values with the loop over curr.values starting one index late.
NextValuesLate(curr) ==
    LET GoesRight(i) == decision(curr, X[i + 1])
        GoesLeft(i) == ~GoesRight(i)
    IN <<SelectSeq(Tail(curr.values), GoesLeft),
         SelectSeq(Tail(curr.values), GoesRight)>>

\* next_values with the else branch run for every index: the right list
\* takes them all.
NextValuesOverlap(curr) ==
    LET GoesLeft(i) == ~decision(curr, X[i + 1])
    IN <<SelectSeq(curr.values, GoesLeft), curr.values>>

\* next_values of _split: the indices of curr, in order, the rule sends left
\* (first) and right (second).
NextValues(curr) ==
    LET GoesRight(i) == decision(curr, X[i + 1])
        GoesLeft(i) == ~GoesRight(i)
    IN <<SelectSeq(curr.values, GoesLeft), SelectSeq(curr.values, GoesRight)>>

\* Sealing that stores the prediction and leaves the type as it was.
SealLeafNoType(node) ==
    [node EXCEPT !.prediction = EvaluateLeaf(node)]

\* Sealing a node as a leaf: type and prediction.
SealLeaf(node) ==
    [node EXCEPT !.type = "leaf", !.prediction = EvaluateLeaf(node)]

\* The id of the next Node object created.
NewId == Cardinality(DOMAIN heap) + 1

\* A call of _split returns: its activation ends, and so does every caller
\* that was at its last statement (the recursion into its right child).
Return(s) ==
    LET Live == {k \in 2..Len(s) : s[k].at # "done"}
    IN IF Live = {} THEN <<>>
       ELSE SubSeq(s, CHOOSE k \in Live : \A j \in Live : k <= j, Len(s))

\* ------------------------------------------------------------ state
\* DecisionTree(max_depth, max_nodes, max_leaf_nodes): the instance as
\* constructed.
Init ==
    /\ data \in Datasets
    /\ max_depth \in Limits
    /\ max_nodes \in Limits
    /\ max_leaf_nodes \in Limits
    /\ X = NoData
    /\ y = NoData
    /\ root = NoNode
    /\ num_nodes = 0
    /\ num_leaf_nodes = 0
    /\ heap = <<>>
    /\ stack = <<>>
    /\ pc = "idle"
    /\ calls = 0
    /\ outcome = "none"
    /\ refit = <<>>
    /\ query = <<>>
    /\ preds = <<>>
    /\ paths = <<>>

\* The outermost call of _split has returned to fit, which returns.
Done(s) == IF s = <<>> THEN "idle" ELSE "fitting"
Ended(s) == IF s = <<>> THEN "ok" ELSE "running"

\* fit(X, y), up to its call of _split(self.root): the three validation
\* calls in order (each raises on what it rejects, after the assignments
\* before it), then the root and its count.
Fit(Xin, yin) ==
    /\ pc = "idle"
    /\ calls < MaxFits
    /\ calls' = calls + 1
    /\ query' = <<>>
    /\ preds' = <<>>
    /\ paths' = <<>>
    /\ UNCHANGED <<config, num_leaf_nodes>>
    /\ IF ~ValidMatrix(Xin)
       THEN /\ outcome' = "invalid"
            /\ refit' = <<>>
            /\ UNCHANGED <<X, y, root, num_nodes, heap, stack, pc>>
       ELSE IF ~ValidVector(yin)
       THEN /\ X' = Xin
            /\ outcome' = "invalid"
            /\ refit' = <<>>
            /\ UNCHANGED <<y, root, num_nodes, heap, stack, pc>>
       ELSE IF ~ConsistentLength(Xin, yin)
       THEN /\ X' = Xin
            /\ y' = yin
            /\ outcome' = "invalid"
            /\ refit' = <<>>
            /\ UNCHANGED <<root, num_nodes, heap, stack, pc>>
       ELSE LET n == Len(Xin) IN
            /\ X' = Xin
            /\ y' = yin
            /\ heap' = <<Node(n, [k \in 1..n |-> k - 1], 1, "root")>>
            /\ root' = 1
            /\ num_nodes' = num_nodes + 1
            /\ stack' = <<[node |-> 1, at |-> "enter"]>>
            /\ pc' = "fitting"
            /\ outcome' = "running"
            /\ refit' = IF outcome = "ok" /\ Xin = X /\ yin = y
                        THEN heap ELSE <<>>

\* The interpreter's recursion limit: one more activation than it allows
\* raises RecursionError out of fit, leaving the tree as built so far.
Overflow(s) == Len(s) >= MaxStack

\* curr with the rule of best_pair, its loss and curr.split assigned.
WithRule(curr, best) ==
    LET ruled == [curr EXCEPT !.loss = best.loss,
                              !.p = best.pair[1],
                              !.val = best.pair[2]]
    IN [ruled EXCEPT !.split = SplitSizes(ruled)]

\* _split(curr) from its entry to the creation of the left child: the node
\* is sealed when the selector finds no split, else it takes the rule and
\* its left child is created and counted.
\* (\E v \in {e} binds v to the value of e, computed once.)
SplitEnter ==
    /\ pc = "fitting"
    /\ Head(stack).at = "enter"
    /\ \E id \in {Head(stack).node} :
       \E curr \in {heap[id]} :
       \E Xs \in {RowsOf(curr.values)} :
       \E ys \in {LabelsOf(curr.values)} :
       \E best \in {BestSplit(Xs, ys)} :
          IF best.pair = <<>>
          THEN /\ heap' = [heap EXCEPT ![id] = SealLeaf(curr)]
               /\ num_leaf_nodes' = num_leaf_nodes + 1
               /\ stack' = Return(stack)
               /\ pc' = Done(stack')
               /\ outcome' = Ended(stack')
               /\ UNCHANGED num_nodes
          ELSE \E ruled \in {WithRule(curr, best)} :
               \E left \in {Node(ruled.split[1], NextValues(ruled)[1],
                                 curr.depth + 1, "node")} :
                  /\ heap' = Append([heap EXCEPT ![id] =
                                        [ruled EXCEPT !.left = NewId]], left)
                  /\ num_nodes' = num_nodes + 1
                  /\ stack' = <<[node |-> id, at |-> "left"]>> \o Tail(stack)
                  /\ UNCHANGED <<num_leaf_nodes, pc, outcome>>
    /\ UNCHANGED <<config, X, y, root, calls, refit, predictVars>>

\* _split(curr), the decision on the left child: recurse into it when it is
\* not pure and the criterion lets it split, else seal it.
SplitLeft ==
    /\ pc = "fitting"
    /\ Head(stack).at = "left"
    /\ \E id \in {Head(stack).node} :
       \E child \in {heap[heap[id].left]} :
          IF ~IsPure(child) /\ CheckCriterion(child, num_nodes, num_leaf_nodes)
          THEN IF Overflow(stack)
               THEN /\ stack' = <<>>
                    /\ pc' = "idle"
                    /\ outcome' = "overflow"
                    /\ UNCHANGED <<heap, num_leaf_nodes>>
               ELSE /\ stack' = <<[node |-> heap[id].left, at |-> "enter"],
                                  [node |-> id, at |-> "right"]>> \o Tail(stack)
                    /\ UNCHANGED <<heap, num_leaf_nodes, pc, outcome>>
          ELSE /\ heap' = [heap EXCEPT ![heap[id].left] = SealLeaf(child)]
               /\ num_leaf_nodes' = num_leaf_nodes + 1
               /\ stack' = <<[node |-> id, at |-> "right"]>> \o Tail(stack)
               /\ UNCHANGED <<pc, outcome>>
    /\ UNCHANGED <<config, X, y, root, num_nodes, calls, refit, predictVars>>

\* _split(curr), its right child: created and counted, then recursed into
\* or sealed as the left one was; either way the call then returns.
SplitRight ==
    /\ pc = "fitting"
    /\ Head(stack).at = "right"
    /\ \E id \in {Head(stack).node} :
       \E curr \in {heap[id]} :
       \E right \in {Node(curr.split[2], NextValues(curr)[2],
                          curr.depth + 1, "node")} :
       \E grown \in {Append([heap EXCEPT ![id] = [curr EXCEPT !.right = NewId]],
                            right)} :
          /\ num_nodes' = num_nodes + 1
          /\ IF ~IsPure(right)
                /\ CheckCriterion(right, num_nodes + 1, num_leaf_nodes)
             THEN IF Overflow(stack)
                  THEN /\ heap' = grown
                       /\ stack' = <<>>
                       /\ pc' = "idle"
                       /\ outcome' = "overflow"
                       /\ UNCHANGED num_leaf_nodes
                  ELSE /\ heap' = grown
                       /\ stack' = <<[node |-> NewId, at |-> "enter"],
                                     [node |-> id, at |-> "done"]>> \o Tail(stack)
                       /\ UNCHANGED <<num_leaf_nodes, pc, outcome>>
             ELSE /\ heap' = [grown EXCEPT ![NewId] = SealLeaf(right)]
                  /\ num_leaf_nodes' = num_leaf_nodes + 1
                  /\ stack' = Return(stack)
                  /\ pc' = Done(stack')
                  /\ outcome' = Ended(stack')
    /\ UNCHANGED <<config, X, y, root, calls, refit, predictVars>>

\* The walk with the two branches exchanged.
RECURSIVE DescendSwapped(_, _)
DescendSwapped(curr, x) ==
    IF curr = NoNode THEN <<NoNode>>
    ELSE IF heap[curr].type = "leaf" THEN <<curr>>
    ELSE IF heap[curr].p = None THEN <<curr, NoNode>>
    ELSE <<curr>> \o DescendSwapped(IF decision(heap[curr], x) = TRUE
                                    THEN heap[curr].left
                                    ELSE heap[curr].right, x)

\* The walk of predict for one row x from node curr: the nodes visited; it
\* ends in NoNode where the loop would fail (a missing child, a node that is
\* no leaf and has no rule).
RECURSIVE Descend(_, _)
Descend(curr, x) ==
    IF curr = NoNode THEN <<NoNode>>
    ELSE IF is_leaf(heap[curr]) THEN <<curr>>
    ELSE IF heap[curr].p = None THEN <<curr, NoNode>>
    ELSE <<curr>> \o Descend(IF decision(heap[curr], x) = TRUE
                             THEN heap[curr].right
                             ELSE heap[curr].left, x)

Last(s) == s[Len(s)]

\* predict(X) on a tree that has a root: one walk per row, the predictions
\* in row order; no result when a walk fails.  predict changes nothing of
\* the instance, so one call is taken between two calls of fit.
Predict(Xq) ==
    /\ pc = "idle"
    /\ root # NoNode
    /\ query = <<>>
    /\ ValidMatrix(Xq)
    /\ query' = Xq
    /\ paths' = [i \in DOMAIN Xq |-> Descend(root, Xq[i])]
    /\ preds' = IF \E i \in DOMAIN Xq : Last(paths'[i]) = NoNode
                THEN <<>>
                ELSE [i \in DOMAIN Xq |-> heap[Last(paths'[i])].prediction]
    /\ UNCHANGED <<config, X, y, root, num_nodes, num_leaf_nodes, heap,
                   stack, pc, calls, outcome, refit>>

\* What predict is asked: the training set, or any single row.
Queries == {data[1]} \cup {<<r>> : r \in Rows}

FitCall == \E in \in Inputs(data) : Fit(in[1], in[2])
SplitStep == SplitEnter \/ SplitLeft \/ SplitRight
PredictCall == \E Xq \in Queries : Predict(Xq)

Next == FitCall \/ SplitEnter \/ SplitLeft \/ SplitRight \/ PredictCall

Spec == Init /\ [][Next]_vars

\* An instance constructed with no limit: max_depth, max_nodes and
\* max_leaf_nodes all omitted.
InitUnbounded ==
    /\ Init
    /\ max_depth = Inf
    /\ max_nodes = Inf
    /\ max_leaf_nodes = Inf

\* fit runs to completion once called: nothing suspends the recursion.
FairSpec == InitUnbounded /\ [][Next]_vars /\ WF_vars(SplitStep)

\* ------------------------------------------------ traversal of the tree
RECURSIVE NodesUnder(_)
\* The nodes reached from node id through left and right.
NodesUnder(id) ==
    IF id = NoNode THEN {}
    ELSE {id} \cup NodesUnder(heap[id].left) \cup NodesUnder(heap[id].right)

TreeNodes == NodesUnder(root)
TreeLeaves == {i \in TreeNodes : is_leaf(heap[i])}
Internal(i) == heap[i].left # NoNode /\ heap[i].right # NoNode
\* A call of fit has returned normally and the tree is the one it built.
Fitted == pc = "idle" /\ outcome = "ok"
Unbounded == max_depth = Inf /\ max_nodes = Inf /\ max_leaf_nodes = Inf
Max(a, b) == IF a >= b THEN a ELSE b

\* ------------------------------------------------------------ claims

\* C1: after every fit, a second fit on a fitted instance included,
\* num_nodes and num_leaf_nodes equal the numbers of nodes and of leaves
\* reachable from the current root.
C1_CountersMatchTree ==
    Fitted => /\ num_nodes = Cardinality(TreeNodes)
              /\ num_leaf_nodes = Cardinality(TreeLeaves)

\* C2: a tree fitted with max_leaf_nodes = L has no more than L leaves.
C2_LeafLimit ==
    Fitted => Cardinality(TreeLeaves) <= max_leaf_nodes

\* C3: a tree fitted with max_depth = D, D = 1 included, has no node of
\* depth > D.
C3_DepthLimit ==
    Fitted => \A i \in TreeNodes : heap[i].depth <= max_depth

\* C3, amended: no node is ever deeper than max_depth when max_depth >= 2;
\* with max_depth = 1 the root is still split and no node is deeper than 2.
C3_DepthLimitFromTwo ==
    \A i \in DOMAIN heap : heap[i].depth <= Max(max_depth, 2)

\* C3 witness: a fit under max_depth = 2 alone has ended with a node at depth
\* 2 that is impure and splittable and was sealed.
C3_Witness ==
    /\ Fitted
    /\ max_depth = 2 /\ max_nodes = Inf /\ max_leaf_nodes = Inf
    /\ \E i \in TreeNodes :
         /\ heap[i].depth = 2
         /\ is_leaf(heap[i])
         /\ heap[i].size > 1
         /\ ~IsPure(heap[i])
         /\ BestSplit(RowsOf(heap[i].values), LabelsOf(heap[i].values)).pair # <<>>

\* C4: a tree fitted with max_nodes = M has num_nodes <= M (stated for the
\* first fit of a fresh instance, whose counters start at 0).
C4_NodeLimit ==
    (Fitted /\ calls = 1) => num_nodes <= max_nodes

\* C5: a fit on the input of the fit before it, on the same instance, builds
\* the same tree (same rules, index sets and predictions).
C5_SameInputSameTree ==
    (Fitted /\ refit # <<>>) => heap = refit

\* C6: the index sets of the two children of an internal node are disjoint,
\* their union is the node's index set, and the node's size is the sum of
\* the children's sizes.
C6_IndexPartition ==
    \A i \in DOMAIN heap :
        Internal(i) =>
            LET l == heap[heap[i].left]
                r == heap[heap[i].right]
            IN /\ Range(l.values) \cap Range(r.values) = {}
               /\ Range(l.values) \cup Range(r.values) = Range(heap[i].values)
               /\ heap[i].size = l.size + r.size

\* C6 witness: a fitted tree whose root holds three samples and whose left
\* child holds two that are not neighbours in the training set.
C6_Witness ==
    /\ Fitted
    /\ Internal(root)
    /\ heap[root].size = 3
    /\ heap[heap[root].left].values = <<0, 2>>

\* C7: after the first fit of a fresh instance num_nodes >= num_leaf_nodes
\* >= 1, the counters are the traversal's counts, and they are equal only
\* for the one-node tree.
C7_FirstFitCounters ==
    (Fitted /\ calls = 1) =>
        /\ num_nodes >= num_leaf_nodes
        /\ num_leaf_nodes >= 1
        /\ num_nodes = Cardinality(TreeNodes)
        /\ num_leaf_nodes = Cardinality(TreeLeaves)
        /\ (num_nodes = num_leaf_nodes =>
                TreeNodes = {root} /\ is_leaf(heap[root]))

\* C7 witness: a first fit that built five nodes, three of them leaves.
C7_Witness ==
    /\ Fitted /\ calls = 1
    /\ num_nodes = 5
    /\ num_leaf_nodes = 3

\* C8: a fit that fails validation leaves the instance as constructed: no
\* root, no training data, counters at zero.
C8_FailedFitLeavesNothing ==
    outcome = "invalid" =>
        /\ root = NoNode
        /\ X = NoData /\ y = NoData
        /\ num_nodes = 0 /\ num_leaf_nodes = 0

\* C9: predict on a fitted tree walks every row from the root to one leaf,
\* right where the decision is true and left otherwise, through nodes that
\* are no leaves and have both children, and returns the leaf's prediction
\* for every row, in row order.
C9_PredictRoutes ==
    query # <<>> =>
        /\ DOMAIN preds = DOMAIN query
        /\ DOMAIN paths = DOMAIN query
        /\ \A i \in DOMAIN query :
             LET path == paths[i] IN
             /\ path[1] = root
             /\ Last(path) # NoNode
             /\ is_leaf(heap[Last(path)])
             /\ preds[i] = heap[Last(path)].prediction
             /\ \A k \in 1..(Len(path) - 1) :
                  /\ ~is_leaf(heap[path[k]])
                  /\ Internal(path[k])
                  /\ path[k + 1] = IF decision(heap[path[k]], query[i])
                                   THEN heap[path[k]].right
                                   ELSE heap[path[k]].left

\* C9 witness: predict on a training set of three rows, one of them routed
\* through two decisions.
C9_Witness ==
    /\ query = data[1]
    /\ Len(query) = 3
    /\ Len(preds) = 3
    /\ \E i \in DOMAIN paths : Len(paths[i]) = 3

\* Every node is a leaf or has its two children.
AllResolved == \A i \in DOMAIN heap : is_leaf(heap[i]) \/ Internal(i)

\* C10: with max_depth, max_nodes and max_leaf_nodes all unbounded, every
\* fit terminates, with every node it created sealed as a leaf or given two
\* children.
C10_FitTerminates ==
    (pc = "fitting") ~> (Fitted /\ AllResolved)

\* C10 witness: a fit with no limit set has ended with a tree of five nodes.
C10_Witness ==
    /\ Fitted /\ Unbounded
    /\ AllResolved
    /\ Cardinality(TreeNodes) = 5

\* Node i has no split rule and no child.
Unsplit(i) ==
    /\ heap[i].p = None /\ heap[i].val = None
    /\ heap[i].left = NoNode /\ heap[i].right = NoNode

\* C11: a node of size 1, the root or a child, under any limits, is never
\* given a split rule or a child; a fit of a single sample leaves a tree of
\* one node, the root sealed as a leaf, and on a first fit the counters are
\* 1 node and 1 leaf.
C11_SizeOneNeverSplit ==
    /\ \A i \in DOMAIN heap : heap[i].size = 1 => Unsplit(i)
    /\ (Fitted /\ Len(X) = 1) =>
          /\ TreeNodes = {root}
          /\ is_leaf(heap[root])
          /\ calls = 1 => (num_nodes = 1 /\ num_leaf_nodes = 1)

\* C11 witness: the fit of a single sample with no limit set has ended on a
\* fresh instance, its root sealed.
C11_Witness ==
    /\ Fitted /\ calls = 1
    /\ Unbounded
    /\ Len(X) = 1
    /\ heap[root].size = 1
    /\ is_leaf(heap[root])

\* A fitted tree of three samples with a child of size 1 sealed beside a
\* child that was split.
SizeOneChildBesideSplit ==
    /\ Fitted
    /\ \E i, j \in TreeNodes :
         /\ heap[i].size = 1 /\ is_leaf(heap[i]) /\ heap[i].depth = 2
         /\ heap[j].depth = 2 /\ Internal(j)

\* _split is about to evaluate _is_pure and _check_criterion for the left
\* child of the node on top of the stack (line 160).
AtLeftCheck == pc = "fitting" /\ Head(stack).at = "left"

\* C12: when _check_criterion runs for a child of a split node, both
\* children of that node have been constructed and num_nodes counts both.
C12_BothChildrenBeforeCheck ==
    AtLeftCheck =>
        LET id == Head(stack).node IN
        /\ heap[id].left # NoNode
        /\ heap[id].right # NoNode
        /\ calls = 1 => num_nodes = Cardinality(DOMAIN heap)

\* On a first fit, when the left child is checked the right child does not
\* exist and num_nodes counts the nodes created so far, the left child
\* included and its sibling not.
LeftCheckedBeforeRightExists ==
    (AtLeftCheck /\ calls = 1) =>
        LET id == Head(stack).node IN
        /\ heap[id].left = Len(heap)
        /\ heap[id].right = NoNode
        /\ num_nodes = Len(heap)

====
